---- MODULE Spec2Model ----
(***************************************************************************)
(* Model of the redis_challenge server: the RESP wire codec                *)
(* (src/src/data_type.rs), the command model and execution                 *)
(* (src/src/command.rs) and the per-connection loop (src/src/server.rs).   *)
(*                                                                         *)
(* Bytes are naturals 0..255, byte strings are sequences of bytes.         *)
(***************************************************************************)
EXTENDS Integers, Sequences, FiniteSets, TLC

VARIABLES
    \* ---- codec harness (data_type.rs tests::assert_idempotent) ----
    cmode,      \* "value": start from a value; "bytes": start from wire bytes; "off"
    cpc,        \* "start", "wire", "decoded", "reencoded", "off"
    cval,       \* the value under test (mode "value")
    ctail,      \* bytes that follow the value on the stream (mode "value")
    cwire,      \* the bytes on the stream
    cenc,       \* the bytes serialize wrote for cval (mode "value")
    ceof,       \* whether the stream ends after cwire
    cres,       \* the result of deserialize
    cout,       \* the bytes written by the second serialize (mode "bytes")
    \* ---- server (server.rs, command.rs) ----
    db,         \* RedisServer.db: the map behind the Mutex
    holder,     \* the connection holding the MutexGuard, 0 when it is free
    now,        \* tokio::time::Instant::now(), in milliseconds
    pc,         \* per connection: where its process() task stands
    peer,       \* per connection: "open", "closed" (peer shut down), "reset"
    inbuf,      \* per connection: bytes sent by the peer and not yet read
    cmd,        \* per connection: the RespCommand being executed
    got,        \* per connection: the entry Get::execute cloned out of the map
    ret,        \* per connection: the reply to serialize
    out,        \* per connection: the replies written and flushed, in order
    \* ---- history, for stating properties ----
    menu,       \* the requests the peers choose from
    budget,     \* the number of requests the peers send in all
    nsent,      \* number of requests sent so far, over all connections
    stamps,     \* per connection: the time the bytes of inbuf were sent
    issued,     \* per connection: the time the command in hand was sent
    reqs,       \* per connection: the outcome of each deserialize, in order:
                \*   st, val   what deserialize returned
                \*   used      the bytes it took from the stream
                \*   rest      the bytes it left unread in the stream
                \*   held      another task held the guard while a command that
                \*             needs none was read and executed
                \*   gone      the task of another connection had ended before
                \*             this read
    hist        \* the Set/Get executions, in the order they finished under the guard

cvars == <<cmode, cpc, cval, ctail, cwire, cenc, ceof, cres, cout>>
svars == <<db, holder, now, pc, peer, inbuf, cmd, got, ret, out>>
hvars == <<menu, budget, nsent, stamps, issued, reqs, hist>>
vars == <<cvars, svars, hvars>>

(***************************************************************************)
(* Bounds of the model.                                                    *)
(***************************************************************************)
MaxPayloadLen == 2      \* longest string payload of a top-level scalar
MaxArrayLen == 2        \* longest array of the value universe
MaxLineLen == 2         \* longest header line text of a raw wire input
NumConns == 2           \* connections accepted by serve()
MaxSends == 3           \* requests sent by all peers together (store traffic)
MaxLoopSends == 2       \* requests sent by all peers together (loop traffic)
MaxArgSends == 2        \* requests sent by all peers together (validation traffic)
MaxReads == 3           \* deserialize calls of one connection
MaxTime == 2            \* the clock stops advancing here

(***************************************************************************)
(* Bytes named by the source.                                              *)
(***************************************************************************)
TagSimpleStrings == 43  \* b'+'
TagErrors == 45         \* b'-'
TagIntegers == 58       \* b':'
TagBulkStrings == 36    \* b'$'
TagArrays == 42         \* b'*'
CR == 13
LF == 10
CRLF == <<CR, LF>>
MinusOne == <<45, 49>>  \* b"-1"

(***************************************************************************)
(* The texts of the source, as bytes.                                      *)
(***************************************************************************)
MsgExpectedBulkString == <<101, 120, 112, 101, 99, 116, 101, 100, 32, 98, 117, 108, 107, 32, 115, 116, 114, 105, 110, 103>>    \* "expected bulk string"
MsgMissingMessage == <<109, 105, 115, 115, 105, 110, 103, 32, 97, 114, 103, 117, 109, 101, 110, 116, 32, 109, 101, 115, 115, 97, 103, 101>>    \* "missing argument message"
MsgMessageNotBulk == <<109, 101, 115, 115, 97, 103, 101, 32, 105, 115, 32, 110, 111, 116, 32, 98, 117, 108, 107, 32, 115, 116, 114, 105, 110, 103>>    \* "message is not bulk string"
MsgMissingKey == <<109, 105, 115, 115, 105, 110, 103, 32, 97, 114, 103, 117, 109, 101, 110, 116, 32, 107, 101, 121>>    \* "missing argument key"
MsgKeyNotBulk == <<107, 101, 121, 32, 105, 115, 32, 110, 111, 116, 32, 98, 117, 108, 107, 32, 115, 116, 114, 105, 110, 103>>    \* "key is not bulk string"
MsgMissingValue == <<109, 105, 115, 115, 105, 110, 103, 32, 97, 114, 103, 117, 109, 101, 110, 116, 32, 118, 97, 108, 117, 101>>    \* "missing argument value"
MsgValueNotBulk == <<118, 97, 108, 117, 101, 32, 105, 115, 32, 110, 111, 116, 32, 98, 117, 108, 107, 32, 115, 116, 114, 105, 110, 103>>    \* "value is not bulk string"
MsgExpectedPX == <<101, 120, 112, 101, 99, 116, 101, 100, 32, 80, 88>>    \* "expected PX"
MsgUnexpectedArgument == <<117, 110, 101, 120, 112, 101, 99, 116, 101, 100, 32, 97, 114, 103, 117, 109, 101, 110, 116>>    \* "unexpected argument"
MsgUnknownCommand == <<117, 110, 107, 110, 111, 119, 110, 32, 99, 111, 109, 109, 97, 110, 100>>    \* "unknown command"
MsgExpectedArray == <<101, 120, 112, 101, 99, 116, 101, 100, 32, 97, 114, 114, 97, 121>>    \* "expected array"
MsgEmptyKey == <<101, 109, 112, 116, 121, 32, 107, 101, 121>>    \* "empty key"
MsgEntryNotBulk == <<101, 110, 116, 114, 121, 32, 105, 115, 32, 110, 111, 116, 32, 97, 32, 98, 117, 108, 107, 32, 115, 116, 114, 105, 110, 103>>    \* "entry is not a bulk string"
MsgExpectedBulkStrings == <<101, 120, 112, 101, 99, 116, 101, 100, 32, 98, 117, 108, 107, 32, 115, 116, 114, 105, 110, 103, 115>>    \* "expected bulk strings"
MsgExpectedIntegers == <<101, 120, 112, 101, 99, 116, 101, 100, 32, 105, 110, 116, 101, 103, 101, 114, 115>>    \* "expected integers"
MsgImpossible == <<105, 109, 112, 111, 115, 115, 105, 98, 108, 101>>    \* "impossible"
MsgExpectedCRLF == <<101, 120, 112, 101, 99, 116, 101, 100, 32, 60, 67, 82, 62, 32, 60, 76, 70, 62, 44, 32, 103, 111, 116, 32>>    \* "expected <CR> <LF>, got "
MsgUnknownTag == <<117, 110, 107, 110, 111, 119, 110, 32, 109, 101, 115, 115, 97, 103, 101, 32, 116, 97, 103, 32, 39>>    \* "unknown message tag '"
MsgFromUtf8 == <<105, 110, 118, 97, 108, 105, 100, 32, 117, 116, 102, 45, 56, 32, 115, 101, 113, 117, 101, 110, 99, 101>>    \* "invalid utf-8 sequence"
MsgParseEmpty == <<99, 97, 110, 110, 111, 116, 32, 112, 97, 114, 115, 101, 32, 105, 110, 116, 101, 103, 101, 114, 32, 102, 114, 111, 109, 32, 101, 109, 112, 116, 121, 32, 115, 116, 114, 105, 110, 103>>    \* "cannot parse integer from empty string"
MsgParseInvalidDigit == <<105, 110, 118, 97, 108, 105, 100, 32, 100, 105, 103, 105, 116, 32, 102, 111, 117, 110, 100, 32, 105, 110, 32, 115, 116, 114, 105, 110, 103>>    \* "invalid digit found in string"
MsgTryFromInt == <<111, 117, 116, 32, 111, 102, 32, 114, 97, 110, 103, 101, 32, 105, 110, 116, 101, 103, 114, 97, 108, 32, 116, 121, 112, 101, 32, 99, 111, 110, 118, 101, 114, 115, 105, 111, 110, 32, 97, 116, 116, 101, 109, 112, 116, 101, 100>>    \* "out of range integral type conversion attempted"
MsgLineNotUtf8 == <<115, 116, 114, 101, 97, 109, 32, 100, 105, 100, 32, 110, 111, 116, 32, 99, 111, 110, 116, 97, 105, 110, 32, 118, 97, 108, 105, 100, 32, 85, 84, 70, 45, 56>>    \* "stream did not contain valid UTF-8"
MsgUnexpectedEof == <<117, 110, 101, 120, 112, 101, 99, 116, 101, 100, 32, 101, 110, 100, 32, 111, 102, 32, 102, 105, 108, 101>>    \* "unexpected end of file"
MsgEarlyEof == <<101, 97, 114, 108, 121, 32, 101, 111, 102>>    \* "early eof"
MsgConnectionReset == <<67, 111, 110, 110, 101, 99, 116, 105, 111, 110, 32, 114, 101, 115, 101, 116, 32, 98, 121, 32, 112, 101, 101, 114, 32, 40, 111, 115, 32, 101, 114, 114, 111, 114, 32, 49, 48, 52, 41>>    \* "Connection reset by peer (os error 104)"
StrPing == <<112, 105, 110, 103>>    \* "ping"
StrEcho == <<101, 99, 104, 111>>    \* "echo"
StrSet == <<115, 101, 116>>    \* "set"
StrGet == <<103, 101, 116>>    \* "get"
StrPx == <<112, 120>>    \* "px"
StrPONG == <<80, 79, 78, 71>>    \* "PONG"
StrOK == <<79, 75>>    \* "OK"

(***************************************************************************)
(* RespDataType: one record shape for the five variants.                   *)
(*   t    the variant                                                      *)
(*   some FALSE for the null bulk string / null array (Option::None)       *)
(*   n    the integer of Integers                                          *)
(*   s    the bytes of SimpleStrings, Errors, BulkStrings(Some)            *)
(*   a    the elements of Arrays(Some)                                     *)
(***************************************************************************)
SimpleStrings(str) == [t |-> "SimpleStrings", some |-> TRUE, n |-> 0, s |-> str, a |-> <<>>]
Errors(str) == [t |-> "Errors", some |-> TRUE, n |-> 0, s |-> str, a |-> <<>>]
Integers(num) == [t |-> "Integers", some |-> TRUE, n |-> num, s |-> <<>>, a |-> <<>>]
BulkStrings(str) == [t |-> "BulkStrings", some |-> TRUE, n |-> 0, s |-> str, a |-> <<>>]
EmptyBulkStrings == [t |-> "BulkStrings", some |-> FALSE, n |-> 0, s |-> <<>>, a |-> <<>>]
Arrays(vec) == [t |-> "Arrays", some |-> TRUE, n |-> 0, s |-> <<>>, a |-> vec]
EmptyArrays == [t |-> "Arrays", some |-> FALSE, n |-> 0, s |-> <<>>, a |-> <<>>]

Tag(v) ==
    CASE v.t = "SimpleStrings" -> TagSimpleStrings
      [] v.t = "Errors" -> TagErrors
      [] v.t = "Integers" -> TagIntegers
      [] v.t = "BulkStrings" -> TagBulkStrings
      [] v.t = "Arrays" -> TagArrays

(***************************************************************************)
(* Sequence helpers.                                                       *)
(***************************************************************************)
SeqsUpTo(S, n) == UNION {[1..k -> S] : k \in 0..n}

Slice(s, i, j) == IF j < i THEN <<>> ELSE SubSeq(s, i, j)

EndsWith(s, suf) ==
    /\ Len(s) >= Len(suf)
    /\ Slice(s, Len(s) - Len(suf) + 1, Len(s)) = suf

(***************************************************************************)
(* Rust's integer formatting and parsing (i64 Display, str::parse::<i64>). *)
(***************************************************************************)
RECURSIVE NatToString(_)
NatToString(n) ==
    IF n < 10 THEN <<48 + n>> ELSE NatToString(n \div 10) \o <<48 + (n % 10)>>

to_string(n) == IF n < 0 THEN <<45>> \o NatToString(0 - n) ELSE NatToString(n)

IsDigit(b) == b >= 48 /\ b <= 57

RECURSIVE DigitsValue(_)
DigitsValue(s) ==
    IF Len(s) = 0 THEN 0
    ELSE 10 * DigitsValue(Slice(s, 1, Len(s) - 1)) + (s[Len(s)] - 48)

\* str::parse::<i64>, [ok, msg, n]: an optional sign, then at least one digit.
\* (the lines of the model are short: no digit string overflows an i64)
ParseI64(s) ==
    LET signed == Len(s) > 0 /\ s[1] \in {43, 45}
        digits == IF signed THEN Slice(s, 2, Len(s)) ELSE s
        wellformed == Len(digits) > 0 /\ \A i \in 1..Len(digits) : IsDigit(digits[i])
    IN  IF Len(s) = 0 THEN [ok |-> FALSE, msg |-> MsgParseEmpty, n |-> 0]
        ELSE IF ~wellformed THEN [ok |-> FALSE, msg |-> MsgParseInvalidDigit, n |-> 0]
        ELSE [ok |-> TRUE, msg |-> <<>>,
              n |-> IF signed /\ s[1] = 45 THEN 0 - DigitsValue(digits)
                    ELSE DigitsValue(digits)]

(***************************************************************************)
(* std::str::from_utf8 validity (read_line reads into a String).           *)
(***************************************************************************)
IsCont(b) == b >= 128 /\ b <= 191

RECURSIVE IsUtf8From(_, _)
IsUtf8From(s, i) ==
    IF i > Len(s) THEN TRUE
    ELSE LET b == s[i]
             has(k) == i + k <= Len(s)
         IN  CASE b <= 127 -> IsUtf8From(s, i + 1)
               [] b >= 194 /\ b <= 223 ->
                    has(1) /\ IsCont(s[i + 1]) /\ IsUtf8From(s, i + 2)
               [] b >= 224 /\ b <= 239 ->
                    /\ has(2)
                    /\ IsCont(s[i + 1]) /\ IsCont(s[i + 2])
                    /\ (b = 224 => s[i + 1] >= 160)
                    /\ (b = 237 => s[i + 1] <= 159)
                    /\ IsUtf8From(s, i + 3)
               [] b >= 240 /\ b <= 244 ->
                    /\ has(3)
                    /\ IsCont(s[i + 1]) /\ IsCont(s[i + 2]) /\ IsCont(s[i + 3])
                    /\ (b = 240 => s[i + 1] >= 144)
                    /\ (b = 244 => s[i + 1] <= 143)
                    /\ IsUtf8From(s, i + 4)
               [] OTHER -> FALSE

IsUtf8(s) == IsUtf8From(s, 1)

(***************************************************************************)
(* util::strip_trailing_newline                                            *)
(***************************************************************************)
\* a variant that strips the line feed only
strip_line_feed_only(input) ==
    IF EndsWith(input, <<LF>>) THEN Slice(input, 1, Len(input) - 1) ELSE input

strip_trailing_newline(input) ==
    IF EndsWith(input, CRLF) THEN Slice(input, 1, Len(input) - 2)
    ELSE IF EndsWith(input, <<LF>>) THEN Slice(input, 1, Len(input) - 1)
    ELSE input

(***************************************************************************)
(* RespDataType::serialize: the bytes written to the sink.                 *)
(***************************************************************************)
RECURSIVE serialize(_)
RECURSIVE serializeAll(_)
serializeAll(arr) ==
    IF Len(arr) = 0 THEN <<>> ELSE serialize(Head(arr)) \o serializeAll(Tail(arr))

serialize(v) ==
    <<Tag(v)>> \o
    CASE v.t = "SimpleStrings" -> v.s \o CRLF
      [] v.t = "Errors" -> v.s \o CRLF
      [] v.t = "Integers" -> to_string(v.n) \o CRLF
      [] v.t = "BulkStrings" ->
            (IF v.some THEN to_string(Len(v.s)) \o CRLF \o v.s ELSE MinusOne) \o CRLF
      [] v.t = "Arrays" ->
            IF v.some THEN to_string(Len(v.a)) \o CRLF \o serializeAll(v.a)
            ELSE MinusOne \o CRLF

(***************************************************************************)
(* RespDataType::deserialize over the bytes buf of the stream, starting at *)
(* index pos; eof tells whether the stream ends after buf.                 *)
(* Result [st, val, next]:                                                 *)
(*   st = "ok"     a value was read, next is the first unread index        *)
(*   st = "block"  the read waits for bytes that have not arrived          *)
(*   st = "eof"    a read hit the end of the stream (io::UnexpectedEof)    *)
(*   st = "utf8"   read_line met bytes that are not UTF-8                  *)
(*   st = "parse"  the header line is not an i64                           *)
(*   st = "crlf"   expect_new_line read two bytes that are not CR LF       *)
(*   st = "tag"    unknown message tag                                     *)
(***************************************************************************)
Res(st, val, next) == [st |-> st, val |-> val, next |-> next]

\* a failed deserialize: the error text travels as the Errors value the loop replies
Fail(st, msg, next) == Res(st, Errors(msg), next)

RECURSIVE FirstLF(_, _)
FirstLF(buf, i) ==
    IF i > Len(buf) THEN 0 ELSE IF buf[i] = LF THEN i ELSE FirstLF(buf, i + 1)

\* AsyncBufReadExt::read_line: [st, msg, line, next]
read_line(buf, pos, eof) ==
    LET j == FirstLF(buf, pos)
        stop == IF j = 0 THEN Len(buf) ELSE j
        line == Slice(buf, pos, stop)
    IN  IF j = 0 /\ ~eof
        THEN [st |-> "block", msg |-> <<>>, line |-> <<>>, next |-> pos]
        ELSE IF ~IsUtf8(line)
        THEN [st |-> "utf8", msg |-> MsgLineNotUtf8, line |-> <<>>, next |-> stop + 1]
        ELSE [st |-> "ok", msg |-> <<>>, line |-> line, next |-> stop + 1]

\* AsyncReadExt::read_exact of n bytes: [st, msg, bytes, next]
read_exact(buf, pos, eof, n) ==
    IF pos + n - 1 <= Len(buf)
    THEN [st |-> "ok", msg |-> <<>>, bytes |-> Slice(buf, pos, pos + n - 1), next |-> pos + n]
    ELSE IF eof
    THEN [st |-> "eof", msg |-> MsgEarlyEof, bytes |-> <<>>, next |-> Len(buf) + 1]
    ELSE [st |-> "block", msg |-> <<>>, bytes |-> <<>>, next |-> pos]

\* format!("{:?}", newline) of a [u8; 2]
DebugPair(bytes) == <<91>> \o to_string(bytes[1]) \o <<44, 32>> \o to_string(bytes[2]) \o <<93>>

expect_new_line(buf, pos, eof) ==
    LET r == read_exact(buf, pos, eof, 2)
    IN  IF r.st # "ok" THEN [st |-> r.st, msg |-> r.msg, next |-> r.next]
        ELSE IF r.bytes # CRLF
        THEN [st |-> "crlf", msg |-> MsgExpectedCRLF \o DebugPair(r.bytes), next |-> r.next]
        ELSE [st |-> "ok", msg |-> <<>>, next |-> r.next]

RECURSIVE deserialize(_, _, _)
RECURSIVE deserializeElems(_, _, _, _, _)

\* the loop `for _ in 0..n { vec.push(Self::deserialize(source).await?) }`
deserializeElems(buf, pos, eof, n, vec) ==
    IF n = 0 THEN Res("ok", Arrays(vec), pos)
    ELSE LET d == deserialize(buf, pos, eof)
         IN  IF d.st # "ok" THEN d
             ELSE deserializeElems(buf, d.next, eof, n - 1, Append(vec, d.val))

deserialize(buf, pos, eof) ==
    IF pos > Len(buf)
    THEN (IF eof THEN Fail("eof", MsgUnexpectedEof, pos) ELSE Fail("block", <<>>, pos))
    ELSE
    LET tag == buf[pos]
        l == read_line(buf, pos + 1, eof)
        text == strip_trailing_newline(l.line)
        num == ParseI64(text)
    IN  IF tag \notin {TagSimpleStrings, TagErrors, TagIntegers, TagBulkStrings, TagArrays}
        THEN Fail("tag", MsgUnknownTag \o to_string(tag) \o <<39>>, pos + 1)
        ELSE IF l.st # "ok" THEN Fail(l.st, l.msg, l.next)
        ELSE IF tag = TagSimpleStrings THEN Res("ok", SimpleStrings(text), l.next)
        ELSE IF tag = TagErrors THEN Res("ok", Errors(text), l.next)
        ELSE IF ~num.ok THEN Fail("parse", num.msg, l.next)
        ELSE IF tag = TagIntegers THEN Res("ok", Integers(num.n), l.next)
        ELSE IF tag = TagBulkStrings THEN
            IF num.n >= 0
            THEN LET str == read_exact(buf, l.next, eof, num.n)
                     nl == expect_new_line(buf, str.next, eof)
                 IN  IF str.st # "ok" THEN Fail(str.st, str.msg, str.next)
                     ELSE IF nl.st # "ok" THEN Fail(nl.st, nl.msg, nl.next)
                     ELSE Res("ok", BulkStrings(str.bytes), nl.next)
            ELSE Res("ok", EmptyBulkStrings, l.next)
        ELSE
            IF num.n >= 0
            THEN deserializeElems(buf, l.next, eof, num.n, <<>>)
            ELSE Res("ok", EmptyArrays, l.next)

(***************************************************************************)
(* Command model (command.rs).  One record shape for RespCommand:          *)
(*   op     "Ping", "Echo", "Set", "Get"                                   *)
(*   key    Ping/Echo: the message; Set/Get: the key (a RespDataType)      *)
(*   value  Set: the value (a RespDataType)                                *)
(*   has    Ping: message is Some; Set: expiry is Some                     *)
(*   ms     Set: the expiry in milliseconds                                *)
(***************************************************************************)
Command(op, key, value, has, ms) ==
    [op |-> op, key |-> key, value |-> value, has |-> has, ms |-> ms]
Ping(has, message) == Command("Ping", message, EmptyArrays, has, 0)
Echo(message) == Command("Echo", message, EmptyArrays, FALSE, 0)
Set(key, value, has, ms) == Command("Set", key, value, has, ms)
Get(key) == Command("Get", key, EmptyArrays, FALSE, 0)

\* util::Result: Ok(val) or Err(text)
Ok(val) == [ok |-> TRUE, val |-> val, err |-> <<>>]
Err(msg) == [ok |-> FALSE, val |-> EmptyArrays, err |-> msg]
OkCmd(command) == [ok |-> TRUE, cmd |-> command, err |-> <<>>]
ErrCmd(msg) == [ok |-> FALSE, cmd |-> Ping(FALSE, EmptyArrays), err |-> msg]

\* a variant that leaves the letter case as it is
keep_ascii_case(str) == str

\* <[u8]>::to_ascii_lowercase
to_ascii_lowercase(str) ==
    [i \in 1..Len(str) |-> IF str[i] >= 65 /\ str[i] <= 90 THEN str[i] + 32 ELSE str[i]]

\* RespDataType::expect_bulk_strings(..).is_ok()
expect_bulk_strings(v) == v.t = "BulkStrings"

\* args.get(i) of the slice after the command name (i counts from 0)
HasArg(args, i) == Len(args) > i
Arg(args, i) == args[i + 1]

\* "ping" arm
TryFromPing(args) ==
    IF HasArg(args, 0) /\ expect_bulk_strings(Arg(args, 0))
    THEN OkCmd(Ping(TRUE, Arg(args, 0)))
    ELSE OkCmd(Ping(FALSE, EmptyArrays))

\* a variant of the "echo" arm that takes any first argument
TryFromEchoAny(args) ==
    IF ~HasArg(args, 0) THEN ErrCmd(MsgMissingMessage) ELSE OkCmd(Echo(Arg(args, 0)))

\* "echo" arm
TryFromEcho(args) ==
    IF ~HasArg(args, 0) THEN ErrCmd(MsgMissingMessage)
    ELSE IF ~expect_bulk_strings(Arg(args, 0)) THEN ErrCmd(MsgMessageNotBulk)
    ELSE OkCmd(Echo(Arg(args, 0)))

\* a variant of the "set" arm that takes a value of any type
TryFromSetAnyValue(args) ==
    IF ~HasArg(args, 0) THEN ErrCmd(MsgMissingKey)
    ELSE IF ~expect_bulk_strings(Arg(args, 0)) THEN ErrCmd(MsgKeyNotBulk)
    ELSE IF ~HasArg(args, 1) THEN ErrCmd(MsgMissingValue)
    ELSE LET key == Arg(args, 0)
             value == Arg(args, 1)
         IN  IF ~HasArg(args, 2) /\ ~HasArg(args, 3)
             THEN OkCmd(Set(key, value, FALSE, 0))
             ELSE IF HasArg(args, 2) /\ HasArg(args, 3)
             THEN LET expiry_type == Arg(args, 2)
                      expiry_value == Arg(args, 3)
                  IN  IF expiry_type.t # "BulkStrings" THEN ErrCmd(MsgExpectedBulkStrings)
                      ELSE IF expiry_type.some /\ ~IsUtf8(expiry_type.s)
                      THEN ErrCmd(MsgFromUtf8)
                      ELSE IF ~expiry_type.some THEN ErrCmd(MsgExpectedPX)
                      ELSE IF expiry_value.t # "Integers" THEN ErrCmd(MsgExpectedIntegers)
                      ELSE IF expiry_value.n < 0 THEN ErrCmd(MsgTryFromInt)
                      ELSE IF to_ascii_lowercase(expiry_type.s) = StrPx
                      THEN OkCmd(Set(key, value, TRUE, expiry_value.n))
                      ELSE ErrCmd(MsgExpectedPX)
             ELSE ErrCmd(MsgUnexpectedArgument)

\* a variant of the "set" arm that ignores whatever follows the value
TryFromSetAnyOption(args) ==
    IF HasArg(args, 1) /\ expect_bulk_strings(Arg(args, 0)) /\ expect_bulk_strings(Arg(args, 1))
    THEN OkCmd(Set(Arg(args, 0), Arg(args, 1), FALSE, 0))
    ELSE ErrCmd(MsgUnexpectedArgument)

\* "set" arm
TryFromSet(args) ==
    IF ~HasArg(args, 0) THEN ErrCmd(MsgMissingKey)
    ELSE IF ~expect_bulk_strings(Arg(args, 0)) THEN ErrCmd(MsgKeyNotBulk)
    ELSE IF ~HasArg(args, 1) THEN ErrCmd(MsgMissingValue)
    ELSE IF ~expect_bulk_strings(Arg(args, 1)) THEN ErrCmd(MsgValueNotBulk)
    ELSE LET key == Arg(args, 0)
             value == Arg(args, 1)
         IN  IF ~HasArg(args, 2) /\ ~HasArg(args, 3)
             THEN OkCmd(Set(key, value, FALSE, 0))
             ELSE IF HasArg(args, 2) /\ HasArg(args, 3)
             THEN LET expiry_type == Arg(args, 2)
                      expiry_value == Arg(args, 3)
                  IN  IF expiry_type.t # "BulkStrings" THEN ErrCmd(MsgExpectedBulkStrings)
                      ELSE IF expiry_type.some /\ ~IsUtf8(expiry_type.s)
                      THEN ErrCmd(MsgFromUtf8)
                      ELSE IF ~expiry_type.some THEN ErrCmd(MsgExpectedPX)
                      ELSE IF expiry_value.t # "Integers" THEN ErrCmd(MsgExpectedIntegers)
                      ELSE IF expiry_value.n < 0 THEN ErrCmd(MsgTryFromInt)
                      ELSE IF to_ascii_lowercase(expiry_type.s) = StrPx
                      THEN OkCmd(Set(key, value, TRUE, expiry_value.n))
                      ELSE ErrCmd(MsgExpectedPX)
             ELSE ErrCmd(MsgUnexpectedArgument)

\* "get" arm
TryFromGet(args) ==
    IF ~HasArg(args, 0) THEN ErrCmd(MsgMissingKey)
    ELSE IF ~expect_bulk_strings(Arg(args, 0)) THEN ErrCmd(MsgKeyNotBulk)
    ELSE OkCmd(Get(Arg(args, 0)))

\* impl TryFrom<RespDataType> for RespCommand
try_from(value) ==
    IF ~(value.t = "Arrays" /\ value.some) THEN ErrCmd(MsgExpectedArray)
    ELSE IF ~(Len(value.a) > 0 /\ value.a[1].t = "BulkStrings" /\ value.a[1].some)
    THEN ErrCmd(MsgExpectedBulkString)
    ELSE IF ~IsUtf8(value.a[1].s) THEN ErrCmd(MsgFromUtf8)
    ELSE LET command == to_ascii_lowercase(value.a[1].s)
             args == Tail(value.a)
         IN  CASE command = StrPing -> TryFromPing(args)
               [] command = StrEcho -> TryFromEcho(args)
               [] command = StrSet -> TryFromSet(args)
               [] command = StrGet -> TryFromGet(args)
               [] OTHER -> ErrCmd(MsgUnknownCommand)

\* Ping::execute and Echo::execute
PingExecute(ping) == IF ping.has THEN ping.key ELSE SimpleStrings(StrPONG)
EchoExecute(echo) == echo.key

(***************************************************************************)
(* The store: HashMap<String, RedisDataTypeWithTTL>, a function whose      *)
(* domain is the set of keys present.  An entry is                         *)
(*   [kind, s, finite, deadline]: RedisDataType::Strings(s) with           *)
(*   Infinite (finite = FALSE) or Finite(deadline).                        *)
(* A RedisDataType is [kind, s] with s the payload of the variant: the     *)
(* bytes of Strings, the number of Integers, the elements of Array.        *)
(***************************************************************************)
EmptyMap == [k \in {} |-> 0]
Infinite(value) == [kind |-> value.kind, s |-> value.s, finite |-> FALSE, deadline |-> 0]
Finite(value, ttl) == [kind |-> value.kind, s |-> value.s, finite |-> TRUE, deadline |-> ttl]
Strings(x) == [kind |-> "Strings", s |-> x]
StoredIntegers(n) == [kind |-> "Integers", s |-> n]
StoredArray(a) == [kind |-> "Array", s |-> a]

\* a variant that takes a null bulk string as the empty key and any bytes
\* as text
KeyOfLossy(k) ==
    IF k.t # "BulkStrings" THEN Err(MsgExpectedBulkStrings)
    ELSE IF ~k.some THEN Ok(<<>>)
    ELSE Ok(k.s)

\* the key of Set::execute / Get::execute: into_bulk_strings, ok_or, from_utf8
KeyOf(k) ==
    IF k.t # "BulkStrings" THEN Err(MsgExpectedBulkStrings)
    ELSE IF ~k.some THEN Err(MsgEmptyKey)
    ELSE IF ~IsUtf8(k.s) THEN Err(MsgFromUtf8)
    ELSE Ok(k.s)

\* impl TryFrom<RespDataType> for RedisDataType
RECURSIVE ToRedisDataType(_)
ToRedisDataType(data) ==
    IF data.t = "BulkStrings" /\ data.some THEN Ok(Strings(data.s))
    ELSE IF data.t = "Integers" THEN Ok(StoredIntegers(data.n))
    ELSE IF data.t = "Arrays" /\ data.some
    THEN LET parts == [i \in 1..Len(data.a) |-> ToRedisDataType(data.a[i])]
         IN  IF \A i \in 1..Len(data.a) : parts[i].ok
             THEN Ok(StoredArray([i \in 1..Len(data.a) |-> parts[i].val]))
             ELSE Err(MsgImpossible)
    ELSE Err(MsgImpossible)

\* the entry Set::execute builds: Finite(value, Instant::now() + time) or Infinite
TtlEntry(value, has, ms, instant) ==
    IF has THEN Finite(value, instant + ms) ELSE Infinite(value)

\* a variant that keeps an occupied entry
InsertIfVacant(context, key, ttl) ==
    [k \in DOMAIN context \cup {key} |-> IF k \in DOMAIN context THEN context[k] ELSE ttl]

\* match entry { Occupied(o) => *o.get_mut() = ttl, Vacant(v) => v.insert(ttl) }
Insert(context, key, ttl) ==
    [k \in DOMAIN context \cup {key} |-> IF k = key THEN ttl ELSE context[k]]

\* a variant that leaves the map as it is
RemoveNothing(context, key) == context

\* context.remove(&key)
Remove(context, key) == [k \in DOMAIN context \ {key} |-> context[k]]

\* a variant that expires the entry at the deadline itself
ExpiredAtDeadline(instant, ttl) == instant >= ttl

\* `Instant::now() > ttl`
Expired(instant, ttl) == instant > ttl

(***************************************************************************)
(* The codec harness: tests::assert_idempotent run in both directions.     *)
(* Mode "value": serialize cval, then deserialize what was written         *)
(* (followed by ctail-like trailing bytes that belong to a later value).   *)
(* Mode "bytes": deserialize cwire, then serialize the value obtained.     *)
(***************************************************************************)
PayloadBytes == {97, CR, LF, 255}       \* 'a', CR, LF and a byte that is never UTF-8
Payloads == SeqsUpTo(PayloadBytes, MaxPayloadLen)
ElemPayloads == SeqsUpTo(PayloadBytes, 1)
IntegerValues == {0 - 2147483647, 0 - 10, 0 - 1, 0, 7, 10, 1000, 2147483647}

ScalarsOver(P, I) ==
    {SimpleStrings(p) : p \in P} \cup {Errors(p) : p \in P}
        \cup {BulkStrings(p) : p \in P} \cup {Integers(i) : i \in I}
        \cup {EmptyBulkStrings, EmptyArrays}

Scalars == ScalarsOver(Payloads, IntegerValues)
Elems == ScalarsOver(ElemPayloads, {0 - 1, 0, 10})
FlatArrays == {Arrays(vec) : vec \in SeqsUpTo(Elems, MaxArrayLen)}
InnerArrays == {Arrays(vec) : vec \in SeqsUpTo(Elems, 1)}
NestedArrays == {Arrays(vec) : vec \in SeqsUpTo(InnerArrays, MaxArrayLen)}
CodecValues == Scalars \cup FlatArrays \cup NestedArrays

Tails == {<<>>, <<TagSimpleStrings>>, <<LF>>, <<97, CR, LF>>}

LineBytes == {43, 45, 48, 49, 50, 97}   \* '+', '-', '0', '1', '2', 'a'
LineTexts == SeqsUpTo(LineBytes, MaxLineLen)
WireTags == {TagSimpleStrings, TagErrors, TagIntegers, TagBulkStrings, TagArrays, 63}
LineEnds == {CRLF, <<LF>>, <<CR>>, <<>>}
WireRests ==
    {<<>>, CRLF, <<97>>, <<97, CR, LF>>, <<97, 97, CR, LF>>, <<97, 97, LF>>,
     <<TagIntegers, 49, CR, LF>>, <<TagIntegers, 49, CR, LF, TagSimpleStrings, LF>>,
     <<TagBulkStrings, 48, CR, LF, CR, LF>>}
WireInputs ==
    {<<tag>> \o text \o end \o rest :
        tag \in WireTags, text \in LineTexts, end \in LineEnds, rest \in WireRests}

NoRes == Fail("none", <<>>, 0)

CodecOff ==
    /\ cmode = "off" /\ cpc = "off" /\ cval = EmptyArrays /\ ctail = <<>>
    /\ cwire = <<>> /\ cenc = <<>> /\ ceof = FALSE /\ cres = NoRes /\ cout = <<>>

CodecInit ==
    /\ cpc = "start"
    /\ cres = NoRes
    /\ cout = <<>>
    /\ cenc = <<>>
    /\ ceof \in BOOLEAN
    /\ \/ /\ cmode = "value"
          /\ cval \in CodecValues
          /\ ctail \in Tails
          /\ cwire = <<>>
       \/ /\ cmode = "bytes"
          /\ cval = EmptyArrays
          /\ ctail = <<>>
          /\ cwire \in WireInputs

\* data.serialize(&mut sink); the bytes of a later value may follow on the stream
CodecSerialize ==
    /\ cmode = "value" /\ cpc = "start"
    /\ cenc' = serialize(cval)
    /\ cwire' = serialize(cval) \o ctail
    /\ cpc' = "wire"
    /\ UNCHANGED <<svars, hvars, cmode, cval, ctail, ceof, cres, cout>>

\* RespDataType::deserialize(&mut source)
CodecDeserialize ==
    /\ \/ cmode = "value" /\ cpc = "wire"
       \/ cmode = "bytes" /\ cpc = "start"
    /\ cres' = deserialize(cwire, 1, ceof)
    /\ cpc' = "decoded"
    /\ UNCHANGED <<svars, hvars, cmode, cval, ctail, cwire, cenc, ceof, cout>>

\* serialize of the value deserialize returned
CodecReserialize ==
    /\ cmode = "bytes" /\ cpc = "decoded" /\ cres.st = "ok"
    /\ cout' = serialize(cres.val)
    /\ cpc' = "reencoded"
    /\ UNCHANGED <<svars, hvars, cmode, cval, ctail, cwire, cenc, ceof, cres>>

(***************************************************************************)
(* The server: RedisServer::process, one task per connection.              *)
(*   pc = "read"    awaiting RespDataType::deserialize(&mut stream)        *)
(*   pc = "lock"    awaiting db.lock()                                     *)
(*   pc = "exec"    holds the guard, about to run Set/Get::execute         *)
(*   pc = "expiry"  Get::execute cloned a Finite entry, about to read the  *)
(*                  clock                                                  *)
(*   pc = "write"   about to ret.serialize(&mut stream) and flush          *)
(*   pc = "ended"   process() returned                                     *)
(***************************************************************************)
Conns == 1..NumConns

KeyK == <<107>>         \* "k"
ValV == <<118>>         \* "v"
ValW == <<119>>         \* "w"
NamePING == <<80, 73, 78, 71>>
NameECHO == <<69, 67, 72, 79>>
NameSET == <<83, 69, 84>>
NameGET == <<71, 69, 84>>
NamePX == <<80, 88>>

ReqPing == Arrays(<<BulkStrings(NamePING)>>)
ReqSet(v) == Arrays(<<BulkStrings(NameSET), BulkStrings(KeyK), BulkStrings(v)>>)
ReqSetPx(v, d) ==
    Arrays(<<BulkStrings(NameSET), BulkStrings(KeyK), BulkStrings(v),
             BulkStrings(NamePX), Integers(d)>>)
ReqGet == Arrays(<<BulkStrings(NameGET), BulkStrings(KeyK)>>)

\* requests that fail validation in try_from: a top-level value that is not an
\* array, a first element that is not a non-null bulk string, an unknown
\* command name, a missing argument, an argument of the wrong type
InvalidRequests ==
    {Integers(1), Arrays(<<Integers(1)>>), Arrays(<<BulkStrings(<<102, 111, 111>>)>>),
     Arrays(<<BulkStrings(NameGET)>>), Arrays(<<BulkStrings(NameECHO), Integers(1)>>)}

StoreMenu == {serialize(r) : r \in {ReqSet(ValV), ReqSetPx(ValW, 1), ReqGet}}

\* other spellings and arguments
KeyJ == <<106>>                         \* "j"
NamePingMixed == <<112, 73, 110, 71>>   \* "pInG"
NameEchoLower == <<101, 99, 104, 111>>  \* "echo"
NameSetMixed == <<115, 69, 116>>        \* "sEt"
NameGetMixed == <<103, 101, 84>>        \* "geT"
NamePxLower == <<112, 120>>             \* "px"
NameEX == <<69, 88>>                    \* "EX"
NameFoo == <<102, 111, 111>>            \* "foo"
TextOne == <<49>>                       \* "1"

\* a request: the command name as a bulk string, then the arguments
Request(name, args) == Arrays(<<BulkStrings(name)>> \o args)

\* SET k w with the arguments opts after the value
ReqSetOpts(opts) == Request(NameSET, <<BulkStrings(KeyK), BulkStrings(ValW)>> \o opts)

PingRequests ==
    {ReqPing, Request(NamePingMixed, <<>>), Request(NamePING, <<BulkStrings(ValV)>>),
     Request(NamePING, <<Integers(1)>>)}
EchoRequests ==
    {Request(NameEchoLower, <<BulkStrings(ValV)>>),
     Request(NameECHO, <<BulkStrings(ValV), BulkStrings(ValW)>>),
     Request(NameECHO, <<>>), Request(NameECHO, <<Integers(1)>>)}
GetRequests ==
    {Request(NameGetMixed, <<BulkStrings(KeyK)>>),
     Request(NameGET, <<BulkStrings(KeyK), BulkStrings(KeyJ)>>),
     Request(NameGET, <<>>)}
SetRequests ==
    {Request(NameSetMixed, <<BulkStrings(KeyK), BulkStrings(ValV)>>),
     ReqSetOpts(<<BulkStrings(NamePxLower), Integers(1)>>),
     ReqSetOpts(<<BulkStrings(NamePX), BulkStrings(TextOne)>>),
     ReqSetOpts(<<BulkStrings(NamePX)>>),
     ReqSetOpts(<<BulkStrings(NameEX), Integers(1)>>),
     ReqSetOpts(<<EmptyBulkStrings, Integers(1)>>),
     ReqSetOpts(<<BulkStrings(NamePX), BulkStrings(ValV)>>),
     ReqSetOpts(<<BulkStrings(NamePX), Integers(0 - 1)>>),
     Request(NameSET, <<BulkStrings(KeyK), Integers(1)>>)}

\* requests that pass try_from and fail in execute: a null bulk string as
\* key, a key that is not UTF-8, a null bulk string as value
KeyNotUtf8 == <<255>>
FailingRequests ==
    {Request(NameSET, <<EmptyBulkStrings, BulkStrings(ValW)>>),
     Request(NameSET, <<BulkStrings(KeyNotUtf8), BulkStrings(ValW)>>),
     Request(NameSET, <<BulkStrings(KeyK), EmptyBulkStrings>>),
     Request(NameGET, <<EmptyBulkStrings>>),
     Request(NameGET, <<BulkStrings(KeyNotUtf8)>>)}
OtherRequests == {Request(NameFoo, <<>>), Integers(1), EmptyArrays}

\* bytes that are no RESP value: an unknown tag byte before CR LF, a bulk
\* length and an integer that are no number, a bulk payload longer than its
\* length says
MalformedRequests ==
    {<<63, CR, LF>>, <<TagBulkStrings, 97, CR, LF>>, <<TagIntegers, 97, CR, LF>>,
     <<TagBulkStrings, 49, CR, LF, 97, 97, CR, LF>>}

ArgsMenu ==
    {serialize(r) : r \in PingRequests \cup EchoRequests \cup GetRequests
                            \cup SetRequests \cup FailingRequests \cup OtherRequests}
        \cup MalformedRequests

\* an entry with a deadline on k, among commands that are no GET k
LazyMenu ==
    {serialize(r) : r \in {ReqSetPx(ValW, 1), ReqGet, ReqPing,
                           Request(NameECHO, <<BulkStrings(ValV)>>),
                           Request(NameGET, <<BulkStrings(KeyJ)>>),
                           Request(NameSET, <<BulkStrings(KeyJ), BulkStrings(ValV)>>)}}
LoopMenu == {serialize(r) : r \in {ReqSet(ValV), ReqGet, ReqPing} \cup InvalidRequests}

NoCmd == Ping(FALSE, EmptyArrays)
NoEntry == Infinite(Strings(<<>>))
NoRet == EmptyArrays

ServerInit(m, b) ==
    /\ db = EmptyMap
    /\ holder = 0
    /\ now = 0
    /\ pc = [c \in Conns |-> "read"]
    /\ peer = [c \in Conns |-> "open"]
    /\ inbuf = [c \in Conns |-> <<>>]
    /\ cmd = [c \in Conns |-> NoCmd]
    /\ got = [c \in Conns |-> NoEntry]
    /\ ret = [c \in Conns |-> NoRet]
    /\ out = [c \in Conns |-> <<>>]
    /\ menu = m
    /\ budget = b
    /\ nsent = 0
    /\ stamps = [c \in Conns |-> 0]
    /\ issued = [c \in Conns |-> 0]
    /\ reqs = [c \in Conns |-> <<>>]
    /\ hist = <<>>

\* ---- the environment: peers and the clock ----

\* the peer writes the bytes of one request to its socket, once the server
\* has answered what it sent before
ClientSend(c) ==
    /\ peer[c] = "open" /\ pc[c] # "ended" /\ nsent < budget
    /\ Len(inbuf[c]) = 0 /\ pc[c] = "read"
    /\ \E r \in menu : inbuf' = [inbuf EXCEPT ![c] = r]
    /\ stamps' = [stamps EXCEPT ![c] = now]
    /\ nsent' = nsent + 1
    /\ UNCHANGED <<cvars, db, holder, now, pc, peer, cmd, got, ret, out, menu, budget, issued, reqs, hist>>

\* the peer shuts its side down: reads at the server reach end of stream
ClientClose(c) ==
    /\ peer[c] = "open" /\ pc[c] # "ended"
    /\ peer' = [peer EXCEPT ![c] = "closed"]
    /\ UNCHANGED <<cvars, db, holder, now, pc, inbuf, cmd, got, ret, out, hvars>>

\* the connection is reset: reads and writes at the server fail
ClientAbort(c) ==
    /\ peer[c] = "open" /\ pc[c] # "ended"
    /\ peer' = [peer EXCEPT ![c] = "reset"]
    /\ inbuf' = [inbuf EXCEPT ![c] = <<>>]
    /\ UNCHANGED <<cvars, db, holder, now, pc, cmd, got, ret, out, hvars>>

\* a variant with a background sweeper that drops what has expired
TickSweep ==
    /\ now < MaxTime
    /\ now' = now + 1
    /\ db' = [k \in {j \in DOMAIN db : ~(db[j].finite /\ now + 1 > db[j].deadline)} |-> db[k]]
    /\ UNCHANGED <<cvars, holder, pc, peer, inbuf, cmd, got, ret, out, hvars>>

Tick ==
    /\ now < MaxTime
    /\ now' = now + 1
    /\ UNCHANGED <<cvars, db, holder, pc, peer, inbuf, cmd, got, ret, out, hvars>>

\* ---- process() ----

\* .unwrap_or_else(|e| RespDataType::errors(e.to_string()))
unwrap_or_else(result) == IF result.ok THEN result.val ELSE Errors(result.err)

\* what the stream gives to deserialize
StreamRead(c) ==
    IF peer[c] = "reset" THEN Fail("reset", MsgConnectionReset, 1)
    ELSE deserialize(inbuf[c], 1, peer[c] = "closed")

\* a variant in which every command takes the guard
NeedsGuardAlways(op) == TRUE

\* the arms of `match cmd` that call db.lock()
NeedsGuard(op) == op \in {"Set", "Get"}

\* RespDataType::deserialize(&mut stream).await.and_then(|data| data.try_into()),
\* and for Ping and Echo the execute that follows at once
ReadCommand(c) ==
    /\ pc[c] = "read" /\ Len(reqs[c]) < MaxReads
    /\ \E d \in {StreamRead(c)} : \E t \in {try_from(d.val)} :
        LET used == d.next - 1
            locks == d.st = "ok" /\ t.ok /\ NeedsGuard(t.cmd.op)
        IN  /\ d.st # "block"
            /\ inbuf' = [inbuf EXCEPT ![c] = Slice(@, used + 1, Len(@))]
            /\ issued' = [issued EXCEPT ![c] = IF used > 0 THEN stamps[c] ELSE now]
            /\ reqs' = [reqs EXCEPT ![c] =
                           Append(@, [st |-> d.st, val |-> d.val, used |-> used,
                                      rest |-> Len(inbuf[c]) - used,
                                      held |-> ~locks /\ holder # 0,
                                      gone |-> \E o \in Conns \ {c} : pc[o] = "ended"])]
            /\ cmd' = [cmd EXCEPT ![c] = IF locks THEN t.cmd ELSE NoCmd]
            /\ pc' = [pc EXCEPT ![c] = IF locks THEN "lock" ELSE "write"]
            /\ ret' = [ret EXCEPT ![c] =
                         IF d.st # "ok" THEN d.val
                         ELSE IF ~t.ok THEN unwrap_or_else(Err(t.err))
                         ELSE IF t.cmd.op = "Ping" THEN unwrap_or_else(Ok(PingExecute(t.cmd)))
                         ELSE IF t.cmd.op = "Echo" THEN unwrap_or_else(Ok(EchoExecute(t.cmd)))
                         ELSE NoRet]
            /\ stamps' = [stamps EXCEPT ![c] = IF Len(inbuf'[c]) = 0 THEN 0 ELSE @]
    /\ UNCHANGED <<cvars, db, holder, now, peer, got, out, menu, budget, nsent, hist>>

\* a variant that never waits
GuardAlwaysFree(h) == TRUE

\* tokio::sync::Mutex::lock resolves only while no guard is alive
GuardFree(h) == h = 0

\* let mut db = db.lock().await;
AcquireGuard(c) ==
    /\ pc[c] = "lock"
    /\ GuardFree(holder)
    /\ holder' = c
    /\ pc' = [pc EXCEPT ![c] = "exec"]
    /\ UNCHANGED <<cvars, db, now, peer, inbuf, cmd, got, ret, out, hvars>>

\* one finished Set/Get execution, for the history
Op(c, op, k, result, kept) ==
    [conn |-> c, op |-> op, ok |-> result.ok, key |-> IF k.ok THEN k.val ELSE <<>>,
     value |-> cmd[c].value, has |-> cmd[c].has, ms |-> cmd[c].ms,
     issued |-> issued[c], t |-> now, ret |-> unwrap_or_else(result), kept |-> kept]

\* a variant in which the guard outlives the match arm
KeepGuard(h) == h

\* the MutexGuard `db` goes out of scope at the end of the match arm
DropGuard(h) == 0

\* the end of the match arm: the reply is in hand, the guard is dropped
Finish(c, op, k, result, context) ==
    /\ db' = context
    /\ holder' = DropGuard(holder)
    /\ pc' = [pc EXCEPT ![c] = "write"]
    /\ ret' = [ret EXCEPT ![c] = unwrap_or_else(result)]
    /\ cmd' = [cmd EXCEPT ![c] = NoCmd]
    /\ got' = [got EXCEPT ![c] = NoEntry]
    /\ hist' = Append(hist, Op(c, op, k, result, k.ok /\ k.val \in DOMAIN context))
    /\ UNCHANGED <<cvars, now, peer, inbuf, out, menu, budget, nsent, stamps, issued, reqs>>

\* Set::execute
SetResult(context, command, instant) ==
    LET k == KeyOf(command.key)
        value == ToRedisDataType(command.value)
    IN  IF ~k.ok THEN [db |-> context, result |-> Err(k.err)]
        ELSE IF ~value.ok THEN [db |-> context, result |-> Err(value.err)]
        ELSE [db |-> Insert(context, k.val,
                            TtlEntry(value.val, command.has, command.ms, instant)),
              result |-> Ok(SimpleStrings(StrOK))]

ExecuteSet(c) ==
    /\ pc[c] = "exec" /\ cmd[c].op = "Set"
    /\ LET r == SetResult(db, cmd[c], now)
       IN  Finish(c, "Set", KeyOf(cmd[c].key), r.result, r.db)

\* a variant of the None arm that leaves an empty entry behind
GetNoneCreates(context, key) ==
    [db |-> [k \in DOMAIN context \cup {key} |->
                IF k = key THEN [kind |-> "Strings", s |-> <<>>, finite |-> FALSE, deadline |-> 0]
                ELSE context[k]],
     result |-> Ok(EmptyBulkStrings)]

\* the arms of Get::execute's match
GetNone(context, key) ==
    [db |-> context, result |-> Ok(EmptyBulkStrings)]
GetInfinite(context, key, entry) ==
    [db |-> context, result |-> Ok(BulkStrings(entry.s))]
GetFinite(context, key, entry, instant) ==
    IF Expired(instant, entry.deadline)
    THEN [db |-> Remove(context, key), result |-> Ok(EmptyBulkStrings)]
    ELSE [db |-> context, result |-> Ok(BulkStrings(entry.s))]
GetOther(context, key) ==
    [db |-> context, result |-> Err(MsgEntryNotBulk)]

\* Get::execute up to `match context.get(&key).cloned()`; a Finite entry
\* still has the clock to read
ExecuteGet(c) ==
    /\ pc[c] = "exec" /\ cmd[c].op = "Get"
    /\ LET k == KeyOf(cmd[c].key)
           found == k.ok /\ k.val \in DOMAIN db
           entry == db[k.val]
       IN  IF ~k.ok THEN Finish(c, "Get", k, Err(k.err), db)
           ELSE IF ~found
           THEN Finish(c, "Get", k, GetNone(db, k.val).result, GetNone(db, k.val).db)
           ELSE IF entry.kind # "Strings"
           THEN Finish(c, "Get", k, GetOther(db, k.val).result, GetOther(db, k.val).db)
           ELSE IF ~entry.finite
           THEN Finish(c, "Get", k, GetInfinite(db, k.val, entry).result,
                       GetInfinite(db, k.val, entry).db)
           ELSE /\ got' = [got EXCEPT ![c] = entry]
                /\ pc' = [pc EXCEPT ![c] = "expiry"]
                /\ UNCHANGED <<cvars, db, holder, now, peer, inbuf, cmd, ret, out, hvars>>

\* the Finite arm: `if Instant::now() > ttl { context.remove(&key); .. }`
ExpireGet(c) ==
    /\ pc[c] = "expiry"
    /\ LET k == KeyOf(cmd[c].key)
           r == GetFinite(db, k.val, got[c], now)
       IN  Finish(c, "Get", k, r.result, r.db)

\* ret.serialize(&mut stream).await?; stream.flush().await?;
WriteReply(c) ==
    /\ pc[c] = "write" /\ peer[c] # "reset"
    /\ out' = [out EXCEPT ![c] = Append(@, ret[c])]
    /\ ret' = [ret EXCEPT ![c] = NoRet]
    /\ pc' = [pc EXCEPT ![c] = "read"]
    /\ issued' = [issued EXCEPT ![c] = 0]
    /\ UNCHANGED <<cvars, db, holder, now, peer, inbuf, cmd, got, menu, budget, nsent, stamps, reqs, hist>>

\* a variant in which the failure ends the tasks of all connections
WriteFailAll(c) ==
    /\ pc[c] = "write" /\ peer[c] # "open"
    /\ pc' = [o \in Conns |-> "ended"]
    /\ ret' = [ret EXCEPT ![c] = NoRet]
    /\ inbuf' = [inbuf EXCEPT ![c] = <<>>]
    /\ UNCHANGED <<cvars, db, holder, now, peer, cmd, got, out, hvars>>

\* the write or the flush fails: `?` returns from process()
WriteFail(c) ==
    /\ pc[c] = "write" /\ peer[c] # "open"
    /\ pc' = [pc EXCEPT ![c] = "ended"]
    /\ ret' = [ret EXCEPT ![c] = NoRet]
    /\ inbuf' = [inbuf EXCEPT ![c] = <<>>]
    /\ UNCHANGED <<cvars, db, holder, now, peer, cmd, got, out, hvars>>

(***************************************************************************)
(* Properties of the codec (SpecCodec).                                    *)
(***************************************************************************)
ValueDecoded == cmode = "value" /\ cpc = "decoded"
RoundTrips == cres.st = "ok" /\ cres.val = cval /\ cres.next = Len(cenc) + 1

\* a line of text: valid UTF-8 without a line feed
IsLineText(str) == IsUtf8(str) /\ \A i \in 1..Len(str) : str[i] # LF

RECURSIVE LinesAreText(_)
LinesAreText(v) ==
    CASE v.t \in {"SimpleStrings", "Errors"} -> IsLineText(v.s)
      [] v.t = "Arrays" -> \A i \in 1..Len(v.a) : LinesAreText(v.a[i])
      [] OTHER -> TRUE

\* C1, as stated: for every value v, deserializing the bytes of serialize(v)
\* yields v and consumes exactly those bytes.
C1_EveryValueRoundTrips == ValueDecoded => RoundTrips

\* C1, amended: for every value whose SimpleStrings and Errors payloads, at every
\* nesting depth, are UTF-8 text without a line feed, deserializing the bytes
\* of serialize(v) yields v and consumes exactly those bytes, whatever follows
\* them on the stream.
C1_TextValueRoundTrips == (ValueDecoded /\ LinesAreText(cval)) => RoundTrips

\* a nested array with a simple string, a null bulk string and an integer came back,
\* with bytes of a later value behind it
C1_Witness ==
    /\ ValueDecoded /\ RoundTrips /\ ctail # <<>>
    /\ cval.t = "Arrays" /\ cval.some /\ Len(cval.a) = 2
    /\ cval.a[1] = Arrays(<<SimpleStrings(<<97>>)>>)
    /\ cval.a[2] = Arrays(<<EmptyBulkStrings>>)

\* C2: for every byte sequence b that deserialize accepts as exactly one value,
\* serialize(deserialize(b)) reproduces b byte for byte.
C2_ByteRoundTrip ==
    (cmode = "bytes" /\ cpc = "reencoded" /\ cres.next = Len(cwire) + 1) => cout = cwire

(***************************************************************************)
(* Properties of the store (Spec) and of the connection loop (SpecLoop).   *)
(***************************************************************************)
Max(S) == CHOOSE x \in S : \A y \in S : y <= x

IsGet(j) == hist[j].op = "Get" /\ hist[j].ok
IsSet(i) == hist[i].op = "Set" /\ hist[i].ok

\* the latest SET on the key of hist[j] that held the guard before it, 0 if none
LastSet(j) ==
    LET S == {i \in 1..(j - 1) : IsSet(i) /\ hist[i].key = hist[j].key}
    IN  IF S = {} THEN 0 ELSE Max(S)

\* GETs whose latest preceding SET carried an expiry
TimedGets == {j \in 1..Len(hist) : IsGet(j) /\ LastSet(j) > 0 /\ hist[LastSet(j)].has}

\* C3: after SET k v with expiry d issued at t0 and no later SET on k, every
\* GET k executed at a time t <= t0 + d returns BulkString(v) and leaves the
\* entry in the store.
C3_GetBeforeDeadline ==
    \A j \in TimedGets :
        LET set == hist[LastSet(j)]
        IN  hist[j].t <= set.issued + set.ms =>
                hist[j].ret = BulkStrings(set.value.s) /\ hist[j].kept

\* a GET read the clock exactly at issue time + d, after time had passed
C3_Witness ==
    \E j \in TimedGets :
        /\ hist[j].t = hist[LastSet(j)].issued + hist[LastSet(j)].ms
        /\ hist[j].t > 0
        /\ hist[j].ret = BulkStrings(ValW)

\* C4, as stated: with t0 the time the client issued the SET, a GET k at any
\* time t > t0 + d returns the null bulk string and removes k.
C4_GetAfterIssueDeadline ==
    \A j \in TimedGets :
        LET set == hist[LastSet(j)]
        IN  hist[j].t > set.issued + set.ms =>
                hist[j].ret = EmptyBulkStrings /\ ~hist[j].kept

\* C4, amended: with t1 the time Set::execute read the clock under the guard
\* (never earlier than the issue time), and no later SET on k, a GET k at any
\* time t > t1 + d returns the null bulk string and removes k, so every
\* following GET k also returns null until some SET k happens.
C4_GetAfterDeadline ==
    \A j \in TimedGets :
        LET set == hist[LastSet(j)]
        IN  hist[j].t > set.t + set.ms =>
                hist[j].ret = EmptyBulkStrings /\ ~hist[j].kept

\* two GETs in a row found the key expired: the first removed it, the second
\* found it absent
C4_Witness ==
    /\ Len(hist) = 3 /\ TimedGets = {2, 3}
    /\ hist[2].t > hist[1].t + hist[1].ms
    /\ hist[2].ret = EmptyBulkStrings /\ hist[3].ret = EmptyBulkStrings
    /\ db = EmptyMap

\* the step in which connection c runs Set::execute to its end
SetStep(c) == pc[c] = "exec" /\ cmd[c].op = "Set" /\ pc'[c] = "write"

\* C5: a successful SET k v [PX d] replies OK and replaces both the value and
\* the TTL state of any existing entry for k: without expiry the key never
\* expires, with expiry it gets the new deadline now + d.
C5_Overwrite ==
    [][\A c \in Conns :
        (SetStep(c) /\ cmd[c].key.some /\ cmd[c].value.some) =>
            /\ ret'[c] = SimpleStrings(StrOK)
            /\ cmd[c].key.s \in DOMAIN db'
            /\ db'[cmd[c].key.s].s = cmd[c].value.s
            /\ db'[cmd[c].key.s].finite = cmd[c].has
            /\ (cmd[c].has => db'[cmd[c].key.s].deadline = now + cmd[c].ms)]_vars

\* a key with a deadline was overwritten without expiry, and then again with one
C5_Witness ==
    /\ Len(hist) = 3
    /\ IsSet(1) /\ hist[1].has
    /\ IsSet(2) /\ ~hist[2].has
    /\ IsSet(3) /\ hist[3].has /\ hist[3].t > hist[1].t
    /\ KeyK \in DOMAIN db /\ db[KeyK].finite /\ db[KeyK].s = ValW

\* the step in which connection c runs Get::execute on a key that is absent
GetAbsentStep(c) ==
    /\ pc[c] = "exec" /\ cmd[c].op = "Get" /\ pc'[c] # "exec"
    /\ cmd[c].key.some /\ cmd[c].key.s \notin DOMAIN db

\* C6: a GET on a key that is absent returns the null bulk string and leaves
\* the store exactly as it was, however many times it is repeated.
C6_GetAbsent ==
    [][\A c \in Conns :
        GetAbsentStep(c) => (pc'[c] = "write" /\ ret'[c] = EmptyBulkStrings /\ db' = db)]_vars

\* the same absent key was read three times
C6_Witness ==
    /\ Len(hist) = 3 /\ \A j \in 1..3 : IsGet(j) /\ hist[j].ret = EmptyBulkStrings
    /\ db = EmptyMap

\* the sequential meaning of SET and GET on a map from keys to
\* [kind, s, finite, deadline], applied to one history entry
SeqReply(store, e) ==
    IF e.op = "Set" THEN SimpleStrings(StrOK)
    ELSE IF e.key \notin DOMAIN store THEN EmptyBulkStrings
    ELSE IF store[e.key].finite /\ e.t > store[e.key].deadline THEN EmptyBulkStrings
    ELSE BulkStrings(store[e.key].s)

SeqStore(store, e) ==
    IF e.op = "Set"
    THEN [k \in DOMAIN store \cup {e.key} |->
            IF k = e.key
            THEN [kind |-> "Strings", s |-> e.value.s, finite |-> e.has,
                  deadline |-> IF e.has THEN e.t + e.ms ELSE 0]
            ELSE store[k]]
    ELSE IF e.key \in DOMAIN store /\ store[e.key].finite /\ e.t > store[e.key].deadline
    THEN [k \in DOMAIN store \ {e.key} |-> store[k]]
    ELSE store

\* run the history from index i on: [ok, store]
RECURSIVE SeqRun(_, _)
SeqRun(store, i) ==
    IF i > Len(hist) THEN [ok |-> TRUE, store |-> store]
    ELSE IF ~hist[i].ok THEN SeqRun(store, i + 1)
    ELSE IF hist[i].ret # SeqReply(store, hist[i]) THEN [ok |-> FALSE, store |-> store]
    ELSE SeqRun(SeqStore(store, hist[i]), i + 1)

\* the replies of connection c's executions, in order
RECURSIVE RepliesOf(_, _)
RepliesOf(c, i) ==
    IF i > Len(hist) THEN <<>>
    ELSE IF hist[i].conn = c THEN <<hist[i].ret>> \o RepliesOf(c, i + 1)
    ELSE RepliesOf(c, i + 1)

\* C7: in every interleaving of SET and GET from all connections, the replies
\* are those of one sequential order of the commands (the order in which they
\* held the guard): each GET returns the value of the latest preceding SET
\* unless it expired, every connection is sent the replies of its own
\* commands in order, and the store holds what that order leaves (no SET lost).
C7_Linearizable ==
    /\ SeqRun(EmptyMap, 1).ok
    /\ SeqRun(EmptyMap, 1).store = db
    /\ \A c \in Conns :
        LET mine == RepliesOf(c, 1)
        IN  /\ Len(out[c]) <= Len(mine)
            /\ \A i \in 1..Len(out[c]) : out[c][i] = mine[i]

\* one connection read what another wrote, after both had competed for the guard
C7_Witness ==
    /\ Len(hist) = 3
    /\ \E j \in 1..3 :
        /\ IsGet(j) /\ LastSet(j) > 0
        /\ hist[LastSet(j)].conn # hist[j].conn
        /\ hist[j].ret = BulkStrings(hist[LastSet(j)].value.s)
    /\ \E c \in Conns : Len(out[c]) = 2

\* C8: for every command read from the stream exactly one reply is written
\* before the next is read, the n-th reply answers the n-th command, and no
\* reply is sent without a preceding request (a read that took bytes from
\* the peer).
C8_OneReplyPerRequest ==
    \A c \in Conns :
        /\ Len(out[c]) <= Len(reqs[c])
        /\ Len(reqs[c]) <= Len(out[c]) + 1
        /\ \A i \in 1..Len(out[c]) : reqs[c][i].used > 0

\* C9: a failed read or an end of stream ends the connection's task outright:
\* no Error reply is produced for it and the loop does not go on.
C9_IoFaultEndsTask ==
    \A c \in Conns :
        \A i \in 1..Len(reqs[c]) : reqs[c][i].st \in {"eof", "reset"} => pc[c] = "ended"

\* the validation errors the claim lists, read off the request value
NameOf(v) == to_ascii_lowercase(v.a[1].s)
IsBulk(v) == v.t = "BulkStrings"
IsInvalid(v) ==
    \/ ~(v.t = "Arrays" /\ v.some)
    \/ Len(v.a) = 0
    \/ ~(IsBulk(v.a[1]) /\ v.a[1].some)
    \/ NameOf(v) \notin {StrPing, StrEcho, StrSet, StrGet}
    \/ NameOf(v) \in {StrEcho, StrGet} /\ (Len(v.a) < 2 \/ ~IsBulk(v.a[2]))
    \/ NameOf(v) = StrSet /\ (Len(v.a) < 3 \/ ~IsBulk(v.a[2]) \/ ~IsBulk(v.a[3]))

InvalidAt(c, i) == reqs[c][i].st = "ok" /\ IsInvalid(reqs[c][i].val)

\* the requests of connection c that reach the store
StoreRequests(c) ==
    {i \in 1..Len(reqs[c]) :
        /\ reqs[c][i].st = "ok" /\ ~IsInvalid(reqs[c][i].val)
        /\ NameOf(reqs[c][i].val) \in {StrSet, StrGet}}

\* C10: a command validation error produces exactly one Error reply, never
\* reaches the store and keeps the connection open: a following well-formed
\* PING on the same connection is answered with SimpleString PONG.
C10_ValidationError ==
    \A c \in Conns :
        /\ \A i \in 1..Len(reqs[c]) :
            InvalidAt(c, i) =>
                /\ i <= Len(out[c]) => out[c][i].t = "Errors"
                /\ i > Len(out[c]) => pc[c] \in {"write", "ended"}
                /\ (i > Len(out[c]) /\ pc[c] = "write") => ret[c].t = "Errors"
                /\ (i + 1 <= Len(out[c]) /\ reqs[c][i + 1].val = ReqPing /\ reqs[c][i + 1].st = "ok")
                        => out[c][i + 1] = SimpleStrings(StrPONG)
        /\ Len(RepliesOf(c, 1)) <= Cardinality(StoreRequests(c))
        /\ pc[c] = "ended" => peer[c] # "open"
        /\ Len(out[c]) <= Len(reqs[c]) /\ Len(reqs[c]) <= Len(out[c]) + 1

\* Scenario 6: an array whose first element is an Integer got an Error reply and
\* the PING after it got PONG, on a connection that is still open
C10_Witness ==
    \E c \in Conns :
        /\ Len(out[c]) = 2 /\ Len(reqs[c]) = 2
        /\ reqs[c][1].val = Arrays(<<Integers(1)>>) /\ out[c][1].t = "Errors"
        /\ reqs[c][2].val = ReqPing /\ out[c][2] = SimpleStrings(StrPONG)
        /\ pc[c] = "read" /\ peer[c] = "open" /\ db = EmptyMap

(***************************************************************************)
(* Properties of request handling (SpecArgs, SpecCodec, Spec, SpecLoop).   *)
(***************************************************************************)
\* the i-th read of connection c began at a request boundary: nothing of an
\* earlier request was left unread in the stream
LeadRead(c, i) == i = 1 \/ reqs[c][i - 1].rest = 0

\* deserialize failed on the bytes themselves: unknown tag, a header line that
\* is no number, no CR LF after a bulk payload
ProtocolError(e) == e.st \in {"tag", "parse", "crlf"}

\* C11: a protocol error in a request is answered with exactly one Error
\* reply, after which the loop waits at a request boundary again: none of
\* the malformed request's bytes is left to be read as a further request,
\* and a well-formed PING that follows gets PONG.
C11_ProtocolErrorRecovery ==
    \A c \in Conns : \A i \in 1..Len(reqs[c]) :
        (LeadRead(c, i) /\ ProtocolError(reqs[c][i])) =>
            /\ i <= Len(out[c]) => out[c][i].t = "Errors"
            /\ reqs[c][i].rest = 0
            /\ (i + 1 <= Len(out[c]) /\ reqs[c][i + 1].val = ReqPing)
                    => out[c][i + 1] = SimpleStrings(StrPONG)

\* the text of a non-negative decimal number
IsDecimal(str) == Len(str) > 0 /\ \A i \in 1..Len(str) : IsDigit(str[i])

\* a non-null array of n non-null bulk strings
IsBulkArray(v, n) ==
    /\ v.t = "Arrays" /\ v.some /\ Len(v.a) = n
    /\ \A i \in 1..n : v.a[i].t = "BulkStrings" /\ v.a[i].some

\* the standard request form [SET, key, value, PX, n], all bulk strings
StandardSetPx(v) ==
    /\ IsBulkArray(v, 5)
    /\ to_ascii_lowercase(v.a[1].s) = StrSet
    /\ to_ascii_lowercase(v.a[4].s) = StrPx
    /\ IsDecimal(v.a[5].s)

\* the executions of connection c, in order
RECURSIVE OpsOf(_, _)
OpsOf(c, i) ==
    IF i > Len(hist) THEN <<>>
    ELSE IF hist[i].conn = c THEN <<hist[i]>> \o OpsOf(c, i + 1)
    ELSE OpsOf(c, i + 1)

\* C12: a SET in the standard request form [SET, key, value, PX, n], n the
\* decimal text of a non-negative integer in a bulk string, the option name
\* in any letter case, is accepted: it is executed with an expiry of n
\* milliseconds and replies OK.
C12_StandardSetPx ==
    \A c \in Conns : \A i \in 1..Len(out[c]) :
        (reqs[c][i].st = "ok" /\ StandardSetPx(reqs[c][i].val)) =>
            /\ out[c][i] = SimpleStrings(StrOK)
            /\ \E e \in {OpsOf(c, 1)[j] : j \in 1..Len(OpsOf(c, 1))} :
                /\ e.op = "Set" /\ e.ok /\ e.has
                /\ e.ms = DigitsValue(reqs[c][i].val.a[5].s)

\* v is a SET with key and value whose option is invalid: an option name
\* without a duration, an option name that is not a bulk string spelling PX,
\* a duration that is neither an Integer nor decimal text, a negative duration
BadSetOption(v) ==
    /\ v.t = "Arrays" /\ v.some /\ Len(v.a) >= 4
    /\ \A i \in 1..3 : IsBulk(v.a[i]) /\ v.a[i].some
    /\ NameOf(v) = StrSet
    /\ \/ Len(v.a) = 4
       \/ ~IsBulk(v.a[4]) \/ ~v.a[4].some \/ to_ascii_lowercase(v.a[4].s) # StrPx
       \/ v.a[5].t = "Integers" /\ v.a[5].n < 0
       \/ v.a[5].t # "Integers" /\ ~(IsBulk(v.a[5]) /\ v.a[5].some /\ IsDecimal(v.a[5].s))

\* the requests of connection c that may reach the store: SET and GET that
\* are valid and carry no invalid option
GoodStoreRequests(c) == {i \in StoreRequests(c) : ~BadSetOption(reqs[c][i].val)}

\* C13: a SET whose option name comes without a duration, whose option name
\* is anything but PX in some letter case (a null bulk string included), or
\* whose duration is not an integer or is negative, gets an Error reply and
\* is never executed: the store is what the executed commands left, and no
\* such SET is among them.
C13_SetOptionValidation ==
    /\ \A c \in Conns :
        /\ \A i \in 1..Len(reqs[c]) :
            (reqs[c][i].st = "ok" /\ BadSetOption(reqs[c][i].val)) =>
                /\ i <= Len(out[c]) => out[c][i].t = "Errors"
                /\ i > Len(out[c]) => pc[c] = "write" /\ ret[c].t = "Errors"
        /\ Len(OpsOf(c, 1)) <= Cardinality(GoodStoreRequests(c))
    /\ SeqRun(EmptyMap, 1).store = db

\* after SET k v, a SET k w with the option name EX, or with a negative
\* duration, was refused on the same connection, and k still holds v
C13_Witness ==
    \E c \in Conns :
        /\ Len(out[c]) = 2 /\ Len(hist) = 1
        /\ reqs[c][1].val = Request(NameSetMixed, <<BulkStrings(KeyK), BulkStrings(ValV)>>)
        /\ reqs[c][2].val \in {ReqSetOpts(<<BulkStrings(NameEX), Integers(1)>>),
                               ReqSetOpts(<<BulkStrings(NamePX), Integers(0 - 1)>>)}
        /\ out[c][2].t = "Errors"
        /\ KeyK \in DOMAIN db /\ db[KeyK].s = ValV /\ ~db[KeyK].finite

\* v is an ECHO or a GET that does not carry exactly one bulk-string argument
WrongArity(v) ==
    /\ v.t = "Arrays" /\ v.some /\ Len(v.a) >= 1
    /\ IsBulk(v.a[1]) /\ v.a[1].some
    /\ NameOf(v) \in {StrEcho, StrGet}
    /\ (Len(v.a) # 2 \/ ~IsBulk(v.a[2]))

\* C14: ECHO and GET take exactly one argument: a request with no argument,
\* with an argument that is not a bulk string, or with more than one
\* argument gets an Error reply and is never executed.
C14_EchoGetArity ==
    \A c \in Conns :
        /\ \A i \in 1..Len(out[c]) :
            (reqs[c][i].st = "ok" /\ WrongArity(reqs[c][i].val)) => out[c][i].t = "Errors"
        /\ Len(OpsOf(c, 1))
            <= Cardinality({i \in StoreRequests(c) : ~WrongArity(reqs[c][i].val)})

\* v is a request named name with n arguments
IsRequest(v, name, n) ==
    /\ v.t = "Arrays" /\ v.some /\ Len(v.a) = n + 1
    /\ IsBulk(v.a[1]) /\ v.a[1].some /\ NameOf(v) = name

\* C15: PING without argument replies SimpleString PONG; PING with one
\* argument requires a bulk string (anything else is refused with an Error
\* reply) and replies with exactly that bulk string; ECHO x replies with the
\* bulk string x; whatever the store holds and whatever came before.
C15_PingEchoResults ==
    \A c \in Conns : \A i \in 1..Len(out[c]) :
        LET v == reqs[c][i].val
        IN  reqs[c][i].st = "ok" =>
                /\ IsRequest(v, StrPing, 0) => out[c][i] = SimpleStrings(StrPONG)
                /\ (IsRequest(v, StrPing, 1) /\ IsBulk(v.a[2])) => out[c][i] = v.a[2]
                /\ (IsRequest(v, StrPing, 1) /\ ~IsBulk(v.a[2])) => out[c][i].t = "Errors"
                /\ (IsRequest(v, StrEcho, 1) /\ IsBulk(v.a[2])) => out[c][i] = v.a[2]

\* the length in the header line of the bulk string or array at the head of
\* the wire bytes: [ok, msg, n]
HeaderLength(wire, eof) == ParseI64(strip_trailing_newline(read_line(wire, 2, eof).line))

\* the wire bytes begin with a bulk-string or array header whose length is n
HasLength(wire, eof, n) ==
    /\ Len(wire) > 0 /\ wire[1] \in {TagBulkStrings, TagArrays}
    /\ read_line(wire, 2, eof).st = "ok"
    /\ HeaderLength(wire, eof).ok /\ HeaderLength(wire, eof).n = n

\* C16: in a bulk-string or array header the length -1, and only -1, denotes
\* the null value: every other negative length makes deserialize fail
\* instead of producing a value.
C16_NullSentinel ==
    (cmode = "bytes" /\ cpc = "decoded") =>
        /\ HasLength(cwire, ceof, 0 - 1)
            => cres.st = "ok" /\ cres.val \in {EmptyBulkStrings, EmptyArrays}
        /\ \A n \in 2..9 : HasLength(cwire, ceof, 0 - n) => cres.st # "ok"

\* str spells the lower-case word name in some letter case
SpelledAs(str, name) ==
    /\ Len(str) = Len(name)
    /\ \A i \in 1..Len(name) : str[i] \in {name[i], name[i] - 32}

\* v is a non-null array that begins with a non-null bulk string
HasName(v) == v.t = "Arrays" /\ v.some /\ Len(v.a) >= 1 /\ IsBulk(v.a[1]) /\ v.a[1].some

\* v is named name in some letter case and has n bulk-string arguments
Spells(v, name, n) ==
    /\ HasName(v) /\ SpelledAs(v.a[1].s, name) /\ Len(v.a) = n + 1
    /\ \A j \in 2..(n + 1) : IsBulk(v.a[j]) /\ v.a[j].some

\* connection c has executed op on key k
Executed(c, op, k) ==
    \E j \in 1..Len(hist) : hist[j].conn = c /\ hist[j].op = op /\ hist[j].ok /\ hist[j].key = k

\* connection c has run op to its end, whatever the result
Ran(c, op) == \E j \in 1..Len(hist) : hist[j].conn = c /\ hist[j].op = op

\* C17: the command is chosen by the lower-cased text of the first array
\* element: every letter-case spelling of PING, ECHO, SET and GET selects
\* that command (a SET or GET whose key is not UTF-8 is run and refused by
\* the command itself), every other name gets the Error reply "unknown
\* command", and a top-level value that is not a non-null array gets the
\* Error reply "expected array".
C17_CommandSelection ==
    \A c \in Conns : \A i \in 1..Len(out[c]) :
        LET v == reqs[c][i].val
        IN  reqs[c][i].st = "ok" =>
                /\ ~(v.t = "Arrays" /\ v.some) => out[c][i] = Errors(MsgExpectedArray)
                /\ Spells(v, StrPing, 0) => out[c][i] = SimpleStrings(StrPONG)
                /\ Spells(v, StrEcho, 1) => out[c][i] = v.a[2]
                /\ Spells(v, StrSet, 2) =>
                        IF IsUtf8(v.a[2].s)
                        THEN out[c][i] = SimpleStrings(StrOK) /\ Executed(c, "Set", v.a[2].s)
                        ELSE out[c][i] = Errors(MsgFromUtf8) /\ Ran(c, "Set")
                /\ Spells(v, StrGet, 1) =>
                        IF IsUtf8(v.a[2].s)
                        THEN out[c][i].t = "BulkStrings" /\ Executed(c, "Get", v.a[2].s)
                        ELSE out[c][i] = Errors(MsgFromUtf8) /\ Ran(c, "Get")
                /\ (HasName(v) /\ IsUtf8(v.a[1].s)
                        /\ \A name \in {StrPing, StrEcho, StrSet, StrGet} :
                                ~SpelledAs(v.a[1].s, name))
                        => out[c][i] = Errors(MsgUnknownCommand)

\* "sEt k v" stored v and "geT k" read it back on the same connection
C17_Witness ==
    \E c \in Conns :
        /\ Len(out[c]) = 2
        /\ reqs[c][1].val = Request(NameSetMixed, <<BulkStrings(KeyK), BulkStrings(ValV)>>)
        /\ reqs[c][2].val = Request(NameGetMixed, <<BulkStrings(KeyK)>>)
        /\ out[c][1] = SimpleStrings(StrOK) /\ out[c][2] = BulkStrings(ValV)

\* connection c is between db.lock() resolving and the end of its match arm
InGuard(c) == pc[c] \in {"exec", "expiry"}

\* C18: at most one connection task holds the store guard at any time, and a
\* task holds it only while it executes its own SET or GET, never while it
\* reads a request or writes a reply: whenever no task is executing the guard
\* is free, so a peer that stalls on read or write blocks nobody.
C18_GuardDiscipline ==
    /\ Cardinality({c \in Conns : InGuard(c)}) <= 1
    /\ \A c \in Conns :
        /\ InGuard(c) <=> holder = c
        /\ InGuard(c) => cmd[c].op \in {"Set", "Get"}
        /\ pc[c] \in {"read", "lock", "write", "ended"} => holder # c
    /\ holder # 0 => holder \in Conns /\ InGuard(holder)

\* one connection executes under the guard while another, whose SET is
\* done, has not yet written its reply
C18_Witness ==
    \E c, d \in Conns :
        /\ c # d
        /\ pc[c] = "write" /\ ret[c] = SimpleStrings(StrOK)
        /\ pc[d] = "exec" /\ holder = d

\* the step in which connection c ends a GET of key k that found the entry
\* past its deadline
ExpiredGetStep(c, k) ==
    /\ pc[c] = "expiry" /\ pc'[c] = "write"
    /\ cmd[c].op = "Get" /\ cmd[c].key.s = k
    /\ db[k].finite /\ now > db[k].deadline

\* C19: the only step that removes a key from the store is a GET of that
\* same key that observes now > deadline, and the only step that changes an
\* entry is a SET of its key: the passage of time, PING, ECHO, a GET of an
\* unexpired key and commands on other keys leave the entry as it is, so an
\* expired entry that nobody reads stays in the store.
C19_LazyExpiration ==
    [][\A k \in DOMAIN db :
        /\ k \notin DOMAIN db' => \E c \in Conns : ExpiredGetStep(c, k)
        /\ (k \in DOMAIN db' /\ db'[k] # db[k]) =>
                \E c \in Conns : SetStep(c) /\ cmd[c].key.s = k]_vars

\* the entry of k is past its deadline and still in the store, after a SET
\* on another key was executed later than the deadline and a PING got PONG
C19_Witness ==
    /\ Len(hist) = 2
    /\ hist[1].op = "Set" /\ hist[1].key = KeyK /\ hist[1].has
    /\ hist[2].op = "Set" /\ hist[2].key = KeyJ /\ hist[2].t > hist[1].t + hist[1].ms
    /\ \E c \in Conns : Len(out[c]) >= 1 /\ out[c][Len(out[c])] = SimpleStrings(StrPONG)
    /\ KeyK \in DOMAIN db /\ db[KeyK].finite /\ now > db[KeyK].deadline
    /\ KeyJ \in DOMAIN db

\* v is a PING, or an ECHO with a bulk-string message
IsPlain(v) ==
    /\ HasName(v)
    /\ \/ SpelledAs(v.a[1].s, StrPing)
       \/ SpelledAs(v.a[1].s, StrEcho) /\ Len(v.a) >= 2 /\ IsBulk(v.a[2])

\* the step in which connection c reads a PING or an ECHO
PlainStep(c) ==
    /\ Len(reqs'[c]) = Len(reqs[c]) + 1
    /\ reqs'[c][Len(reqs'[c])].st = "ok"
    /\ IsPlain(reqs'[c][Len(reqs'[c])].val)

\* C20: PING and ECHO use no shared state: the step that reads one has its
\* reply in hand at once, whoever holds the guard, and changes neither the
\* guard nor the store; only SET and GET ever wait for or hold the guard.
C20_PingEchoNoSharedState ==
    [][\A c \in Conns :
        /\ PlainStep(c) =>
            /\ pc'[c] = "write" /\ ret'[c].t \in {"SimpleStrings", "BulkStrings"}
            /\ holder' = holder /\ db' = db /\ hist' = hist
        /\ pc'[c] \in {"lock", "exec", "expiry"} => cmd'[c].op \in {"Set", "Get"}]_vars

\* a PING was read and answered with PONG while another connection held the
\* guard from before the read until after the reply
C20_Witness ==
    \E c \in Conns :
        /\ Len(out[c]) = 1 /\ out[c][1] = SimpleStrings(StrPONG)
        /\ reqs[c][1].held
        /\ holder \in Conns \ {c} /\ Len(hist) = 0

\* the step in which the task of connection c ends
TaskEnds(c) == pc[c] # "ended" /\ pc'[c] = "ended"

\* C21: when the task of one connection ends because of an I/O fault, the
\* store keeps exactly its entries, the guard is not left held by the ended
\* task, and the other connections are where they were: nothing of theirs is
\* dropped, and the guard they wait for is free or held by a live task that
\* is executing, so their commands go on being read, executed and answered.
C21_ConnectionIsolation ==
    [][\A c \in Conns :
        /\ TaskEnds(c) =>
            /\ peer[c] # "open"
            /\ db' = db /\ holder' = holder /\ hist' = hist
            /\ \A o \in Conns \ {c} :
                /\ pc'[o] = pc[o] /\ inbuf'[o] = inbuf[o] /\ cmd'[o] = cmd[o]
                /\ ret'[o] = ret[o] /\ out'[o] = out[o] /\ peer'[o] = peer[o]
        /\ pc'[c] = "ended" => holder' # c
        /\ holder' = c => InGuard(c)']_vars

\* after the task of one connection ended on a failed write, another
\* connection sent a GET that was read, executed and answered with the value
\* the ended connection had stored
C21_Witness ==
    \E c, o \in Conns :
        /\ c # o /\ pc[c] = "ended" /\ holder = 0
        /\ Len(hist) = 2 /\ hist[1].conn = c /\ hist[1].op = "Set" /\ hist[2].conn = o
        /\ Len(out[o]) = 1 /\ reqs[o][1].gone
        /\ out[o][1] = BulkStrings(ValV)
        /\ KeyK \in DOMAIN db /\ db[KeyK].s = ValV

\* C22: whatever the connections send, every entry of the store holds a
\* Strings value, never Integers or Array, and no GET is answered with the
\* Error "entry is not a bulk string": not as a result of an executed
\* command, not as a reply in hand, not as a reply written.
C22_StoreHoldsStrings ==
    /\ \A k \in DOMAIN db : db[k].kind = "Strings"
    /\ \A j \in 1..Len(hist) : hist[j].ret # Errors(MsgEntryNotBulk)
    /\ \A c \in Conns :
        /\ ret[c] # Errors(MsgEntryNotBulk)
        /\ \A i \in 1..Len(out[c]) : out[c][i] # Errors(MsgEntryNotBulk)

\* after SET k v, a SET k with the integer 1 as value was refused on the same
\* connection, and k still holds the bytes v
C22_Witness ==
    \E c \in Conns :
        /\ Len(out[c]) = 2 /\ Len(hist) = 1
        /\ reqs[c][1].val = Request(NameSetMixed, <<BulkStrings(KeyK), BulkStrings(ValV)>>)
        /\ reqs[c][2].val = Request(NameSET, <<BulkStrings(KeyK), Integers(1)>>)
        /\ out[c][1] = SimpleStrings(StrOK)
        /\ out[c][2] = Errors(MsgValueNotBulk)
        /\ KeyK \in DOMAIN db /\ db[KeyK].kind = "Strings" /\ db[KeyK].s = ValV

\* a SET or GET that try_from accepted and execute cannot carry out: its key
\* is a null bulk string or is not UTF-8, or it is a SET whose value is a
\* null bulk string
FailsInExecute(command) ==
    /\ command.op \in {"Set", "Get"}
    /\ \/ IsBulk(command.key) /\ ~command.key.some
       \/ IsBulk(command.key) /\ command.key.some /\ ~IsUtf8(command.key.s)
       \/ command.op = "Set" /\ IsBulk(command.value) /\ ~command.value.some

\* connection c leaves the match arm of its SET or GET with the reply in hand
ExecuteStep(c) == pc[c] \in {"exec", "expiry"} /\ pc'[c] = "write"

\* C23: a SET or GET that passes validation and fails in execute (a null
\* bulk string as key, key bytes that are not valid text, a SET with a null
\* bulk string as value) has an Error as its reply and leaves the store
\* exactly as it was, that Error is the reply the client is sent, and a SET
\* changes the store only when its reply is OK.
C23_FailedExecuteIsAtomic ==
    [][\A c \in Conns :
        /\ ExecuteStep(c) /\ FailsInExecute(cmd[c]) =>
            /\ ret'[c].t = "Errors"
            /\ db' = db
        /\ ExecuteStep(c) /\ cmd[c].op = "Set" /\ db' # db =>
            ret'[c] = SimpleStrings(StrOK)
        /\ Len(out'[c]) = Len(out[c]) + 1 =>
            out'[c] = Append(out[c], ret[c]) /\ db' = db]_vars

\* after SET k v, a SET k with a null bulk string as value was answered with
\* the Error "impossible" on the same connection, and the store holds k with
\* the bytes v and nothing else
C23_Witness ==
    \E c \in Conns :
        /\ Len(out[c]) = 2 /\ Len(hist) = 2
        /\ reqs[c][1].val = Request(NameSetMixed, <<BulkStrings(KeyK), BulkStrings(ValV)>>)
        /\ reqs[c][2].val = Request(NameSET, <<BulkStrings(KeyK), EmptyBulkStrings>>)
        /\ hist[2].conn = c /\ hist[2].op = "Set" /\ ~hist[2].ok
        /\ out[c][1] = SimpleStrings(StrOK)
        /\ out[c][2] = Errors(MsgImpossible)
        /\ DOMAIN db = {KeyK} /\ db[KeyK].s = ValV /\ ~db[KeyK].finite

(***************************************************************************)
(* Specifications.                                                         *)
(***************************************************************************)
\* the store under concurrent SET/GET traffic from peers that stay connected
Init == CodecOff /\ ServerInit(StoreMenu, MaxSends)
Next ==
    \/ Tick
    \/ \E c \in Conns :
        \/ ClientSend(c)
        \/ ReadCommand(c)
        \/ AcquireGuard(c)
        \/ ExecuteSet(c)
        \/ ExecuteGet(c)
        \/ ExpireGet(c)
        \/ WriteReply(c)
Spec == Init /\ [][Next]_vars

\* the connection loop under valid and invalid requests and disconnects
LoopInit == CodecOff /\ ServerInit(LoopMenu, MaxLoopSends)
NextLoop ==
    \E c \in Conns :
        \/ ClientSend(c)
        \/ ClientClose(c)
        \/ ClientAbort(c)
        \/ ReadCommand(c)
        \/ AcquireGuard(c)
        \/ ExecuteSet(c)
        \/ ExecuteGet(c)
        \/ WriteReply(c)
        \/ WriteFail(c)
SpecLoop == LoopInit /\ [][NextLoop]_vars

\* an entry with a deadline among commands that do not read it
LazyInit == CodecOff /\ ServerInit(LazyMenu, MaxSends)
NextLazy ==
    \/ Tick
    \/ \E c \in Conns :
        \/ ClientSend(c)
        \/ ReadCommand(c)
        \/ AcquireGuard(c)
        \/ ExecuteSet(c)
        \/ ExecuteGet(c)
        \/ ExpireGet(c)
        \/ WriteReply(c)
SpecLazy == LazyInit /\ [][NextLazy]_vars

\* request validation: every spelling and argument form, and bytes that are
\* no RESP value
ArgsInit == CodecOff /\ ServerInit(ArgsMenu, MaxArgSends)
NextArgs ==
    \E c \in Conns :
        \/ ClientSend(c)
        \/ ReadCommand(c)
        \/ AcquireGuard(c)
        \/ ExecuteSet(c)
        \/ ExecuteGet(c)
        \/ ExpireGet(c)
        \/ WriteReply(c)
SpecArgs == ArgsInit /\ [][NextArgs]_vars

\* the codec on its own
InitCodec == CodecInit /\ ServerInit({}, 0)
NextCodec == CodecSerialize \/ CodecDeserialize \/ CodecReserialize
SpecCodec == InitCodec /\ [][NextCodec]_vars

====
